---- MODULE Spec2Model ----
(***************************************************************************)
(* The POST /concat-videos handler of server.js as a state machine.  One   *)
(* action per segment of the async handler that runs between two awaits,   *)
(* plus the events of the collaborators it waits on (axios, the write      *)
(* stream, the response stream, the ffmpeg child process, the client).     *)
(***************************************************************************)
EXTENDS Integers, Sequences, FiniteSets, TLC

\* ---------------------------------------------------------------- bounds
MaxUrls == 2
BodyChunks == 2

Urls == {"http://h/a.mp4", "http://h/b.mp4"}
Uuids == {"7f1c", "e2d0"}

\* ------------------------------------------------------------ JS values
\* The values req.body.video_urls can hold after express.json().
Undefined == [type |-> "undefined", truthy |-> FALSE, elems |-> <<>>]
Null == [type |-> "null", truthy |-> FALSE, elems |-> <<>>]
EmptyString == [type |-> "string", truthy |-> FALSE, elems |-> <<>>]
UrlString == [type |-> "string", truthy |-> TRUE, elems |-> <<>>]
Zero == [type |-> "number", truthy |-> FALSE, elems |-> <<>>]
PlainObject == [type |-> "object", truthy |-> TRUE, elems |-> <<>>]

RECURSIVE SeqsUpTo(_)
SeqsUpTo(n) ==
  IF n = 0 THEN {<<>>}
  ELSE LET shorter == SeqsUpTo(n - 1)
       IN shorter \cup {Append(s, u) : s \in {t \in shorter : Len(t) = n - 1}, u \in Urls}

ArrayOf(s) == [type |-> "array", truthy |-> TRUE, elems |-> s]

Bodies ==
  {Undefined, Null, EmptyString, UrlString, Zero, PlainObject}
    \cup {ArrayOf(s) : s \in SeqsUpTo(MaxUrls)}

\* ------------------------------------------------------------ constants
NoJob == ""
Timeout == 120000

MsgRequired == "video_urls array is required"
MsgFailed == "Failed to concatenate videos"
MsgNoOutput == "Output file was not created"
MsgMkdir == "EACCES: permission denied, mkdir"
MsgWrite == "ENOSPC: no space left on device, write"
MsgRead == "EIO: i/o error, read"
MsgRm == "EBUSY: resource busy or locked, rm"
MsgTimeout == "timeout of " \o ToString(Timeout) \o "ms exceeded"
MsgNetwork == "getaddrinfo ENOTFOUND"
MsgStatus == "Request failed with status code 404"
MsgExec == "Command failed: ffmpeg"

AxiosOutcomes == {"ok", "timeout", "network", "status"}
Stderrs == {"", "Invalid data found when processing input"}
ExecOutcomes == {"error", "absent", "empty", "full"}

VARIABLES pc, video_urls, jobId, i, downloadedFiles, dirs, fs, response,
          clientConnected, log

vars == <<pc, video_urls, jobId, i, downloadedFiles, dirs, fs, response,
          clientConnected, log>>

\* ---------------------------------------------------------------- paths
PathJoin(d, n) == d \o "/" \o n
TempDir(job) == "/tmp/" \o job
VideoName(k) == "video_" \o ToString(k) \o ".mp4"
TempFileOneBased(job, k) == PathJoin(TempDir(job), VideoName(k + 1))
TempFile(job, k) == PathJoin(TempDir(job), VideoName(k))
ListFile(job) == PathJoin(TempDir(job), "files.txt")
OutputFile(job) == PathJoin(TempDir(job), "output.mp4")

\* ------------------------------------------------------------ remote data
\* The body served for url u, as the chunks the response stream emits.
Content(u) == [c \in 1..BodyChunks |-> [src |-> u, chunk |-> c]]

\* ------------------------------------------------------------ file system
EmptyFs == [p \in {} |-> <<>>]
WriteFs(f, p, data) == [q \in DOMAIN f \cup {p} |-> IF q = p THEN data ELSE f[q]]
Under(d, p) == \E n \in {VideoName(k) : k \in 0..(MaxUrls + 1)} \cup {"files.txt", "output.mp4"} :
                  p = PathJoin(d, n)
RmTree(f, d) == [q \in {p \in DOMAIN f : ~Under(d, p)} |-> f[q]]

\* ------------------------------------------------------------ responses
NoResponse ==
  [status |-> 0, error |-> "", details |-> "", jobId |-> NoJob, data |-> <<>>,
   contentType |-> "", disposition |-> "", delivered |-> FALSE]

Ev(op, arg) == [op |-> op, arg |-> arg]

Init ==
  /\ pc = "idle"
  /\ video_urls = Undefined
  /\ jobId = NoJob
  /\ i = 0
  /\ downloadedFiles = <<>>
  /\ dirs = {}
  /\ fs = EmptyFs
  /\ response = NoResponse
  /\ clientConnected = TRUE
  /\ log = <<>>


\* ----------------------------------------------------------- validation
\* if (!video_urls || !Array.isArray(video_urls) || video_urls.length === 0)
IsValidNoLength(v) == ~(~v.truthy \/ v.type # "array")
IsValid(v) == ~(~v.truthy \/ v.type # "array" \/ Len(v.elems) = 0)

Json400 ==
  [NoResponse EXCEPT !.status = 400, !.error = MsgRequired,
                     !.delivered = clientConnected]

Json500(job, message) ==
  [NoResponse EXCEPT !.status = 500, !.error = MsgFailed, !.details = message,
                     !.jobId = job, !.delivered = clientConnected]

Send200(videoBuffer) ==
  [NoResponse EXCEPT !.status = 200, !.data = videoBuffer,
                     !.contentType = "video/mp4",
                     !.disposition = "attachment; filename=concatenated.mp4",
                     !.delivered = clientConnected]

\* ---------------------------------------------------------- catch block
\* Sets pc, dirs, fs, log and response from the state (d, f, l) the try
\* block had reached when it threw `message`.  rmOk: whether the rmSync of
\* the catch block returns (TRUE) or throws (FALSE).
CatchNoCleanup(job, message, d, f, l, rmOk) ==
  /\ dirs' = d
  /\ fs' = f
  /\ log' = Append(l, Ev("send", 500))
  /\ response' = Json500(job, message)
  /\ pc' = "done"

Catch(job, message, d, f, l, rmOk) ==
  IF TempDir(job) \in d
  THEN IF rmOk
       THEN /\ dirs' = d \ {TempDir(job)}
            /\ fs' = RmTree(f, TempDir(job))
            /\ log' = l \o <<Ev("rmSync", 1), Ev("send", 500)>>
            /\ response' = Json500(job, message)
            /\ pc' = "done"
       ELSE \* rmSync throws inside the catch block: the async handler's
            \* promise rejects and no response is written.
            /\ dirs' = d
            /\ fs' = f
            /\ log' = Append(l, Ev("rmSync", 0))
            /\ response' = response
            /\ pc' = "rejected"
  ELSE /\ dirs' = d
       /\ fs' = f
       /\ log' = Append(l, Ev("send", 500))
       /\ response' = Json500(job, message)
       /\ pc' = "done"

\* ------------------------------------------------- manifest and ffmpeg
Line(f) == "file '" \o f \o "'"
\* downloadedFiles.map(f => `file '${f}'`).join('\n'), as its lines
ListContent(files) == [k \in 1..Len(files) |-> Line(files[k])]

RECURSIVE ConcatAll(_)
ConcatAll(ss) == IF ss = <<>> THEN <<>> ELSE Head(ss) \o ConcatAll(Tail(ss))

\* What `ffmpeg -f concat -i files.txt` reads: the files the manifest names.
ManifestInputs(f, job) ==
  LET lines == f[ListFile(job)]
      named(k) == {p \in DOMAIN f : Line(p) = lines[k]}
  IN [k \in 1..Len(lines) |->
        IF named(k) = {} THEN <<>> ELSE f[CHOOSE p \in named(k) : TRUE]]

\* The workspace after the child process has exited.
FfmpegRun(f, job, outcome) ==
  CASE outcome = "full" -> WriteFs(f, OutputFile(job), ConcatAll(ManifestInputs(f, job)))
    [] outcome = "empty" -> WriteFs(f, OutputFile(job), <<>>)
    [] OTHER -> f

\* reject(new Error(`FFmpeg failed: ${stderr || error.message}`))
FfmpegMessage(stderr, message) ==
  "FFmpeg failed: " \o (IF stderr # "" THEN stderr ELSE message)

\* ------------------------------------------------------- download loop
\* The for loop from iteration k up to the exec call.  Sets pc, i,
\* downloadedFiles, dirs, fs, log and response.
Loop(job, urls, k, files, d, f, l, wrOk, rmOk) ==
  /\ i' = k
  /\ downloadedFiles' = files
  /\ IF k < Len(urls)
     THEN /\ pc' = "await_axios"
          /\ log' = Append(l, Ev("axios", k))
          /\ dirs' = d
          /\ fs' = f
          /\ response' = response
     ELSE IF wrOk
          THEN /\ pc' = "await_exec"
               /\ fs' = WriteFs(f, ListFile(job), ListContent(files))
               /\ log' = l \o <<Ev("writeFileSync", Len(files)), Ev("exec", Len(files))>>
               /\ dirs' = d
               /\ response' = response
          ELSE Catch(job, MsgWrite, d, f, Append(l, Ev("writeFileSync", -1)), rmOk)

\* ------------------------------------------------------ handler entry
PostConcatVideos(body, id, mkOk, wrOk, rmOk) ==
  /\ pc = "idle"
  /\ video_urls' = body
  /\ clientConnected' = clientConnected
  /\ IF ~IsValid(body)
     THEN /\ response' = Json400
          /\ log' = Append(log, Ev("send", 400))
          /\ pc' = "done"
          /\ UNCHANGED <<jobId, i, downloadedFiles, dirs, fs>>
     ELSE /\ jobId' = id
          /\ IF mkOk
             THEN Loop(id, body.elems, 0, <<>>, dirs \cup {TempDir(id)}, fs,
                       log \o <<Ev("uuidv4", 0), Ev("mkdirSync", 1)>>, wrOk, rmOk)
             ELSE /\ Catch(id, MsgMkdir, dirs, fs,
                           log \o <<Ev("uuidv4", 0), Ev("mkdirSync", 0)>>, rmOk)
                  /\ UNCHANGED <<i, downloadedFiles>>

\* ----------------------------------------------------- axios settles
\* await axios({method: 'GET', url, responseType: 'stream', timeout}):
\* resolves once the response headers of a 2xx answer have arrived.
AxiosMessage(outcome) ==
  CASE outcome = "timeout" -> MsgTimeout
    [] outcome = "network" -> MsgNetwork
    [] OTHER -> MsgStatus

AxiosSettle(outcome, rmOk) ==
  /\ pc = "await_axios"
  /\ UNCHANGED <<video_urls, jobId, i, downloadedFiles, clientConnected>>
  /\ IF outcome = "ok"
     THEN \* fs.createWriteStream(tempFile); response.data.pipe(writer)
          /\ fs' = WriteFs(fs, TempFile(jobId, i), <<>>)
          /\ log' = Append(log, Ev("createWriteStream", i))
          /\ pc' = "await_writer"
          /\ UNCHANGED <<dirs, response>>
     ELSE Catch(jobId, AxiosMessage(outcome), dirs, fs,
                Append(log, Ev("axiosError", i)), rmOk)

\* ------------------------------------------------- the writer's promise
\* new Promise((resolve, reject) => { writer.on('finish', resolve);
\*                                    writer.on('error', reject); })
WriterPromiseOnDrain(ev) ==
  CASE ev \in {"finish", "drain"} -> "resolve"
    [] ev = "error" -> "reject"
    [] OTHER -> "pending"

WriterPromise(ev) ==
  CASE ev = "finish" -> "resolve"
    [] ev = "error" -> "reject"
    [] OTHER -> "pending"

\* The handler's reaction to event ev of the write stream, the workspace
\* being f when the event is emitted.
OnWriterEvent(ev, f, wrOk, rmOk) ==
  LET l == Append(log, Ev(ev, i))
      settled == WriterPromise(ev)
  IN /\ UNCHANGED <<video_urls, jobId, clientConnected>>
     /\ CASE settled = "resolve" ->
               \* statSync, downloadedFiles.push(tempFile), next iteration
               Loop(jobId, video_urls.elems, i + 1,
                    Append(downloadedFiles, TempFile(jobId, i)), dirs, f,
                    l \o <<Ev("statSync", i), Ev("push", i)>>, wrOk, rmOk)
          [] settled = "reject" ->
               /\ Catch(jobId, MsgWrite, dirs, f, l, rmOk)
               /\ UNCHANGED <<i, downloadedFiles>>
          [] OTHER ->
               /\ fs' = f
               /\ log' = l
               /\ UNCHANGED <<pc, i, downloadedFiles, dirs, response>>

\* A chunk of the response body is piped into the file.
WriterDrain(wrOk, rmOk) ==
  /\ pc = "await_writer"
  /\ LET file == TempFile(jobId, i)
         body == Content(video_urls.elems[i + 1])
     IN /\ file \in DOMAIN fs
        /\ Len(fs[file]) < Len(body)
        /\ OnWriterEvent("drain",
                         WriteFs(fs, file, Append(fs[file], body[Len(fs[file]) + 1])),
                         wrOk, rmOk)

\* The response stream ended, pipe() ended the writer, the file is flushed.
WriterFinish(wrOk, rmOk) ==
  /\ pc = "await_writer"
  /\ TempFile(jobId, i) \in DOMAIN fs
  /\ fs[TempFile(jobId, i)] = Content(video_urls.elems[i + 1])
  /\ OnWriterEvent("finish", fs, wrOk, rmOk)

\* The write stream fails (open or write error).
WriterError(wrOk, rmOk) ==
  /\ pc = "await_writer"
  /\ OnWriterEvent("error", fs, wrOk, rmOk)

\* The response stream fails while the body is being piped (connection
\* reset, socket timeout).  The handler listens on the writer only, and
\* pipe() neither ends nor fails the writer: either nothing settles the
\* promise, or the unhandled 'error' event ends the process.
ResponseStreamError(outcome) ==
  /\ pc = "await_writer"
  /\ TempFile(jobId, i) \in DOMAIN fs
  /\ Len(fs[TempFile(jobId, i)]) < BodyChunks
  /\ pc' = outcome
  /\ log' = Append(log, Ev("streamError", i))
  /\ UNCHANGED <<video_urls, jobId, i, downloadedFiles, dirs, fs, response,
                 clientConnected>>

\* ------------------------------------- after ffmpeg: verify, read, send
\* Lines 104-117, the workspace being f after the child has exited.
AfterExecSendFirst(job, d, f, l, rdOk, rmOk1, rmOk2) ==
  IF OutputFile(job) \notin DOMAIN f
  THEN Catch(job, MsgNoOutput, d, f, Append(l, Ev("existsSync", 0)), rmOk2)
  ELSE IF ~rdOk
  THEN Catch(job, MsgRead, d, f, l \o <<Ev("existsSync", 1), Ev("readFileSync", 0)>>, rmOk2)
  ELSE /\ dirs' = IF rmOk1 THEN d \ {TempDir(job)} ELSE d
       /\ fs' = IF rmOk1 THEN RmTree(f, TempDir(job)) ELSE f
       /\ log' = l \o <<Ev("existsSync", 1), Ev("readFileSync", 1), Ev("send", 200),
                        Ev("rmSync", IF rmOk1 THEN 1 ELSE 0)>>
       /\ response' = Send200(f[OutputFile(job)])
       /\ pc' = IF rmOk1 THEN "done" ELSE "rejected"

AfterExec(job, d, f, l, rdOk, rmOk1, rmOk2) ==
  IF OutputFile(job) \notin DOMAIN f
  THEN Catch(job, MsgNoOutput, d, f, Append(l, Ev("existsSync", 0)), rmOk2)
  ELSE IF ~rdOk
  THEN Catch(job, MsgRead, d, f, l \o <<Ev("existsSync", 1), Ev("readFileSync", 0)>>, rmOk2)
  ELSE IF ~rmOk1
  THEN Catch(job, MsgRm, d, f,
             l \o <<Ev("existsSync", 1), Ev("readFileSync", 1), Ev("rmSync", 0)>>, rmOk2)
  ELSE /\ dirs' = d \ {TempDir(job)}
       /\ fs' = RmTree(f, TempDir(job))
       /\ log' = l \o <<Ev("existsSync", 1), Ev("readFileSync", 1), Ev("rmSync", 1),
                        Ev("send", 200)>>
       /\ response' = Send200(f[OutputFile(job)])
       /\ pc' = "done"

\* The exec callback: the child has exited.
ExecCallback(outcome, stderr, rdOk, rmOk1, rmOk2) ==
  /\ pc = "await_exec"
  /\ UNCHANGED <<video_urls, jobId, i, downloadedFiles, clientConnected>>
  /\ LET f == FfmpegRun(fs, jobId, outcome)
     IN IF outcome = "error"
        THEN Catch(jobId, FfmpegMessage(stderr, MsgExec), dirs, f,
                   Append(log, Ev("execCallback", 1)), rmOk2)
        ELSE AfterExec(jobId, dirs, f, Append(log, Ev("execCallback", 0)),
                       rdOk, rmOk1, rmOk2)

\* The client closes the connection while the job runs; nothing listens.
ClientDisconnect ==
  /\ pc \in {"await_axios", "await_writer", "await_exec"}
  /\ clientConnected
  /\ clientConnected' = FALSE
  /\ UNCHANGED <<pc, video_urls, jobId, i, downloadedFiles, dirs, fs, response, log>>

Next ==
  \/ \E body \in Bodies, id \in Uuids, mkOk, wrOk, rmOk \in BOOLEAN :
        PostConcatVideos(body, id, mkOk, wrOk, rmOk)
  \/ \E outcome \in AxiosOutcomes, rmOk \in BOOLEAN : AxiosSettle(outcome, rmOk)
  \/ \E wrOk, rmOk \in BOOLEAN : WriterDrain(wrOk, rmOk)
  \/ \E wrOk, rmOk \in BOOLEAN : WriterFinish(wrOk, rmOk)
  \/ \E wrOk, rmOk \in BOOLEAN : WriterError(wrOk, rmOk)
  \/ \E outcome \in {"hung", "crashed"} : ResponseStreamError(outcome)
  \/ \E outcome \in ExecOutcomes, stderr \in Stderrs, rdOk, rmOk1, rmOk2 \in BOOLEAN :
        ExecCallback(outcome, stderr, rdOk, rmOk1, rmOk2)
  \/ ClientDisconnect

Spec == Init /\ [][Next]_vars

\* The event loop runs every callback whose event has occurred; axios
\* settles within its timeout and the child process exits.
FairSpec ==
  /\ Spec
  /\ WF_vars(\E outcome \in AxiosOutcomes, rmOk \in BOOLEAN : AxiosSettle(outcome, rmOk))
  /\ WF_vars(\E wrOk, rmOk \in BOOLEAN : WriterDrain(wrOk, rmOk))
  /\ WF_vars(\E wrOk, rmOk \in BOOLEAN : WriterFinish(wrOk, rmOk))
  /\ WF_vars(\E outcome \in ExecOutcomes, stderr \in Stderrs, rdOk, rmOk1, rmOk2 \in BOOLEAN :
                ExecCallback(outcome, stderr, rdOk, rmOk1, rmOk2))

TypeOK ==
  /\ pc \in {"idle", "await_axios", "await_writer", "await_exec", "done",
             "rejected", "hung", "crashed"}
  /\ video_urls \in Bodies
  /\ jobId \in Uuids \cup {NoJob}
  /\ i \in 0..(MaxUrls + 1)
  /\ response.status \in {0, 200, 400, 500}

\* ------------------------------------------------------------ properties
N == Len(video_urls.elems)
Happened(op, arg) == \E k \in DOMAIN log : log[k] = Ev(op, arg)
Workspace == "/tmp/" \o jobId
Video(k) == Workspace \o "/video_" \o ToString(k) \o ".mp4"
WorkspaceAbsent == Workspace \notin dirs /\ \A p \in DOMAIN fs : ~Under(Workspace, p)
\* The handler will take no further step.
HandlerStopped == pc \in {"done", "rejected", "hung", "crashed"}

\* C1: in every terminal state of a validated request (200 sent or 500
\* sent) the job's workspace directory /tmp/<jobId> does not exist.
C1_WorkspaceRemoved ==
  (jobId # NoJob /\ response.status \in {200, 500}) => WorkspaceAbsent

C1_Witness ==
  /\ response.status = 500
  /\ response.details = MsgNoOutput
  /\ Happened("mkdirSync", 1)
  /\ WorkspaceAbsent

\* C2: a missing, non-array or empty video_urls is answered with 400
\* {error: 'video_urls array is required'} and nothing else happens: no job
\* id, no workspace, no fetch, no processor run.
InvalidInput(v) == v.type = "undefined" \/ v.type # "array" \/ v.elems = <<>>

C2_InvalidInput ==
  (pc # "idle" /\ InvalidInput(video_urls)) =>
     /\ response.status = 400
     /\ response.error = "video_urls array is required"
     /\ response.details = "" /\ response.jobId = ""
     /\ jobId = NoJob
     /\ dirs = {} /\ fs = EmptyFs
     /\ log = <<Ev("send", 400)>>

C2_Witness ==
  /\ pc = "done"
  /\ video_urls = ArrayOf(<<>>)
  /\ response.status = 400

\* C4: when the processor is invoked, downloadedFiles has length N, entry i
\* is video_<i>.mp4 holding the content fetched from video_urls[i], and
\* files.txt lists exactly those N paths in input order.
C4_OrderPreserved ==
  Happened("exec", Len(downloadedFiles)) /\ pc = "await_exec" =>
     /\ Len(downloadedFiles) = N
     /\ \A k \in 0..(N - 1) :
           /\ downloadedFiles[k + 1] = Video(k)
           /\ Video(k) \in DOMAIN fs
           /\ fs[Video(k)] = Content(video_urls.elems[k + 1])
     /\ (Workspace \o "/files.txt") \in DOMAIN fs
     /\ fs[Workspace \o "/files.txt"] = [k \in 1..N |-> "file '" \o Video(k - 1) \o "'"]

C4_Witness ==
  /\ pc = "await_exec"
  /\ N = 2
  /\ video_urls.elems[1] # video_urls.elems[2]
  /\ Len(downloadedFiles) = 2

\* C8: downloads of a job are strictly sequential: the fetch of URL i+1
\* begins only after the write stream of item i emitted 'finish' with its
\* file fully written, so at most one download is in flight.
Settled(j, k) ==
  \E m \in 1..k : log[m].arg = j /\ log[m].op \in {"finish", "error", "axiosError", "streamError"}
InFlight(k) == {j \in 0..MaxUrls : (\E m \in 1..k : log[m] = Ev("axios", j)) /\ ~Settled(j, k)}

C8_Sequential ==
  /\ \A k \in DOMAIN log :
        /\ Cardinality(InFlight(k)) <= 1
        /\ (log[k].op = "axios" /\ log[k].arg > 0) =>
              \E m \in 1..(k - 1) : log[m] = Ev("finish", log[k].arg - 1)
  /\ pc \in {"await_axios", "await_writer"} =>
        \A j \in 0..(i - 1) :
           Video(j) \in DOMAIN fs /\ fs[Video(j)] = Content(video_urls.elems[j + 1])

C8_Witness ==
  /\ pc = "await_writer"
  /\ i = 1
  /\ Happened("finish", 0)
  /\ Happened("axios", 1)

\* C9 (as claimed): on the success path the order is read output, respond,
\* delete workspace: no removal precedes the sending of the 200.
C9_RespondThenDelete ==
  \A k \in DOMAIN log :
     log[k] = Ev("send", 200) => \A m \in 1..(k - 1) : log[m].op # "rmSync"

\* C9 (amended): on the success path the order is read output, delete
\* workspace, respond: the 200 is sent only after output.mp4 has been read
\* and the workspace removed, so the workspace is gone whether or not the
\* response reaches the client.
C9_DeleteThenRespond ==
  /\ \A k \in DOMAIN log :
        log[k] = Ev("send", 200) =>
           /\ \E r \in 1..(k - 1) : \E m \in (r + 1)..(k - 1) :
                 log[r] = Ev("readFileSync", 1) /\ log[m] = Ev("rmSync", 1)
           /\ \A m \in (k + 1)..Len(log) : log[m].op # "rmSync"
  /\ response.status = 200 => WorkspaceAbsent

C9_Witness ==
  /\ response.status = 200
  /\ ~response.delivered
  /\ WorkspaceAbsent
  /\ Happened("send", 200)

\* C3: fail-fast on download: the processor is invoked only when all N URLs
\* have been downloaded completely; if the fetch of URL i fails, no later
\* URL is fetched, no URL is fetched twice, the processor is never invoked
\* and the request ends with HTTP 500 carrying {error, details, jobId}.
FetchFailed(j) ==
  Happened("axiosError", j) \/ Happened("error", j) \/ Happened("streamError", j)

C3_FailFast ==
  /\ (\E k \in DOMAIN log : log[k].op = "exec") =>
        \A j \in 0..(N - 1) : Happened("finish", j)
  /\ \A k, m \in DOMAIN log :
        (log[k].op = "axios" /\ log[m].op = "axios" /\ k # m) => log[k].arg # log[m].arg
  /\ \A j \in 0..MaxUrls :
        FetchFailed(j) =>
           /\ \A k \in DOMAIN log : log[k].op = "axios" => log[k].arg <= j
           /\ \A k \in DOMAIN log : log[k].op # "exec"
           /\ HandlerStopped =>
                 /\ response.status = 500
                 /\ response.error = "Failed to concatenate videos"
                 /\ response.details # ""
                 /\ response.jobId = jobId

\* C5: if the processor reports success but output.mp4 does not exist, the
\* request ends with HTTP 500 whose details say the output was not created,
\* never with 200, and the workspace is removed.
C5_MissingOutput ==
  (Happened("execCallback", 0) /\ Happened("existsSync", 0) /\ HandlerStopped) =>
     /\ response.status = 500
     /\ response.details = "Output file was not created"
     /\ WorkspaceAbsent

\* C6: whenever a request ends with HTTP 200 the body is non-empty: a
\* processor run that reports success and leaves an empty output.mp4 never
\* yields a 200 response.
C6_NonEmptyOutput ==
  response.status = 200 => response.data # <<>>

\* C7: every job that has started eventually reaches a terminal state (200
\* or 500 sent and the workspace removed), whatever the download does,
\* including an error of the response stream while the body is piped.
C7_Terminates ==
  /\ (jobId # NoJob) ~> (response.status \in {200, 500} /\ WorkspaceAbsent)
  /\ (\E j \in 0..MaxUrls : Happened("streamError", j)) ~>
        (response.status = 500 /\ WorkspaceAbsent)

\* C10: every failure after workspace creation triggers one removal attempt
\* before the 500 is sent, and a failure of the removal is not escalated: the
\* 500 still reports the original error and the job id, and a removal
\* failure on the success path does not replace the 200.
RmAttempts == Cardinality({k \in DOMAIN log : log[k].op = "rmSync"})

C10_RemovalNotEscalated ==
  (Happened("mkdirSync", 1) /\ pc \in {"done", "rejected"}) =>
     /\ response.status \in {200, 500}
     /\ RmAttempts = 1
     /\ Happened("readFileSync", 1) => response.status = 200
     /\ response.status = 500 =>
           /\ response.details # MsgRm
           /\ response.jobId = jobId

====
